---- MODULE Spec2Model ----
(***************************************************************************)
(* A model of one-build: the Builder Strategy (builder.py) and the         *)
(* registry-backed Layer Cache (cache.py).                                 *)
(*                                                                         *)
(* Spec      : two independent builders (From, __enter__,                  *)
(*             CreatePackageBase, __exit__) sharing one registry.          *)
(* CacheSpec : the cache interface (Registry.Get / Registry.Store) driven  *)
(*             by an arbitrary caller.                                     *)
(* AppSpec   : two builders calling BuildAppLayer inside their scopes.     *)
(***************************************************************************)
EXTENDS Naturals, Sequences, FiniteSets, TLC

\* ------------------------------------------------------------------ state

VARIABLES
  registry,   \* the registry behind the cache: tag -> image, NoImage when absent
  clock,      \* wall clock, in seconds
  pc,         \* per builder: where its build is
  strategy,   \* per builder: the strategy From returned (kind and bound context)
  tempdir,    \* per builder: self._tempdir (whether it exists, the files in it)
  call,       \* per builder: the locals of its current CreatePackageBase call
  result,     \* per builder: what its last CreatePackageBase returned
  err,        \* per builder: the exception that ended its build, "" when none
  calls,      \* per builder: CreatePackageBase calls made
  trace,      \* per builder: what its current call did (Get outcome, resolver
              \* and Store invocations)
  last,       \* the most recent call of the cache interface
  storedBy,   \* tag -> the (base, namespace, checksum) its entry was stored for
  applayer    \* per builder: what its BuildAppLayer calls returned, in order

bvars == <<pc, strategy, tempdir, call, result, err, calls, trace>>
cvars == <<last, storedBy>>
avars == <<applayer>>
vars == <<registry, clock, bvars, cvars, avars>>

\* ------------------------------------------------------------------ bounds

\* The wall clock advances from 0 to MaxClock (seconds, as gzip records it).
MaxClock == 1
\* CreatePackageBase calls one builder makes inside its scope.
MaxCalls == 2

\* ------------------------------------------------------------------ values

Builders == {"A", "B"}

Bases == {"base-a", "base-b"}

\* builder.py:96
PYTHON_NAMESPACE == "python-requirements-cache"

Namespaces == {PYTHON_NAMESPACE, "other-cache"}

\* The contents a requirements.txt may have.
Descriptors == {"", "flask==1.0", "legacy"}

Markers == {"requirements.txt", "package.json"}

\* A Source Context: the marker files it contains and, when it has a
\* requirements.txt, that file's bytes.
Contexts ==
  {c \in [files : SUBSET Markers, requirements : Descriptors] :
     "requirements.txt" \notin c.files => c.requirements = ""}

Contains(ctx, name) == name \in ctx.files

\* ctx.GetFile(name): requirements.txt holds the descriptor, package.json "{}".
GetFile(ctx, name) == IF name = "requirements.txt" THEN ctx.requirements ELSE "{}"

\* ctx.ListFiles(): the files of the context, in one fixed order.
ListFiles(ctx) ==
  SelectSeq(<<"package.json", "requirements.txt">>, LAMBDA f : f \in ctx.files)

\* len(content) for the file contents of the model.
ByteLen(content) ==
  CASE content = "" -> 0
    [] content = "{}" -> 2
    [] content = "legacy" -> 6
    [] OTHER -> 10

\* hashlib.sha256(x).hexdigest(): injective on the inputs of the model, and
\* never equal to its input.
Sha256(x) == <<"sha256", x>>

Checksums == {Sha256(d) : d \in Descriptors}

\* An image is a base and the layers appended to it; NoImage is Python's None.
NoImage == [base |-> "none", layers |-> <<>>]

BaseImage(b) == [base |-> b, layers |-> <<>>]

\* append.Layer handing back the image it was given.
AppendLayerNothing(img, layer) == img

\* append.Layer(base_image, layer): a new image value, the base is not changed.
AppendLayer(img, layer) == [img EXCEPT !.layers = Append(@, layer)]

\* ------------------------------------------------------------------ cache.py

\* Registry._tag with the time of the call in the fingerprint.
TagByClock(base_image, namespace, checksum) ==
  [repo |-> "repo", namespace |-> namespace,
   tag |-> Sha256(IF clock = 0 THEN checksum ELSE Sha256(""))]

\* Registry._tag with the namespace left out of the repository path.
TagIgnoringNamespace(base_image, namespace, checksum) ==
  [repo |-> "repo", namespace |-> "other-cache", tag |-> Sha256(checksum)]

\* Registry._tag: the base image is not part of the fingerprint.
Tag(base_image, namespace, checksum) ==
  [repo |-> "repo", namespace |-> namespace, tag |-> Sha256(checksum)]

\* The locations of the cache's repository.
Tags == [repo : {"repo"}, namespace : Namespaces, tag : {Sha256(c) : c \in Checksums}]

\* Registry.Get with a registry failure taken for a miss.
RegistryGetSwallowing(reg, ok, base_image, namespace, checksum) ==
  LET entry == Tag(base_image, namespace, checksum) IN
  IF ok /\ reg[entry] # NoImage THEN [status |-> "hit", img |-> reg[entry]]
  ELSE [status |-> "miss", img |-> NoImage]

\* Registry.Get against registry contents reg; ok is whether the registry
\* answered (FromRegistry.exists() raises on anything but "not found").
RegistryGet(reg, ok, base_image, namespace, checksum) ==
  LET entry == Tag(base_image, namespace, checksum) IN
  IF ~ok THEN [status |-> "error", img |-> NoImage]
  ELSE IF reg[entry] # NoImage THEN [status |-> "hit", img |-> reg[entry]]
  ELSE [status |-> "miss", img |-> NoImage]

\* Registry.Store pushing the base image instead of the value.
RegistryStoreBase(reg, ok, base_image, namespace, checksum, value) ==
  LET entry == Tag(base_image, namespace, checksum) IN
  IF ok THEN [reg EXCEPT ![entry] = base_image] ELSE reg

\* Registry.Store: the registry contents after pushing value; a failed push
\* leaves the tag as it was (the manifest is the last thing uploaded).
RegistryStore(reg, ok, base_image, namespace, checksum, value) ==
  LET entry == Tag(base_image, namespace, checksum) IN
  IF ok THEN [reg EXCEPT ![entry] = value] ELSE reg

\* ------------------------------------------------------------------ wheels

\* What `pip wheel -r requirements.txt` leaves in the directory for each
\* descriptor of the model.
WheelsOf(descriptor) ==
  CASE descriptor = "flask==1.0" -> {"flask.whl", "six.whl"}
    [] descriptor = "legacy" -> {"legacy.whl"}
    [] OTHER -> {}

AllWheels == UNION {WheelsOf(d) : d \in Descriptors}

\* zf.namelist() of a wheel, its metadata.json excluded.
Namelist(whl) ==
  CASE whl = "flask.whl" -> <<"flask/__init__.py", "flask/cli.py">>
    [] whl = "six.whl" -> <<"six.py">>
    [] OTHER -> <<"legacy.py">>

\* Whether the wheel carries <distribution>.dist-info/metadata.json.
HasMetadata(whl) == whl # "legacy.whl"

\* metadata['extensions']['python.commands']['wrap_console'] of a wheel: script
\* name -> the parts of its "module:obj" descriptor. Empty when any level is
\* missing.
WrapConsole(whl) ==
  IF whl = "flask.whl"
  THEN [s \in {"b", "a"} |-> IF s = "b" THEN <<"pkg.b", "main">> ELSE <<"pkg.a", "run">>]
  ELSE [s \in {} |-> <<>>]

\* The script names of the model in ascending order, as sorted() compares them.
ScriptNamesAscending == <<"a", "b">>

\* sorted(scripts)
Sorted(names) == SelectSeq(ScriptNamesAscending, LAMBDA s : s \in names)

\* The archive entries _AddWHLFiles adds for a wheel.
AddWHLFiles(whl) ==
  [i \in 1..Len(Namelist(whl)) |->
     [name |-> <<"usr/local/lib/python2.7/dist-packages/", Namelist(whl)[i]>>,
      mode |-> "0644",
      content |-> <<"file", whl, Namelist(whl)[i]>>]]

\* Whether _AddWHLScripts raises for a wheel: no metadata.json (KeyError), or a
\* descriptor that does not split into (module, obj) (ValueError).
AddWHLScriptsRaises(whl) ==
  \/ ~HasMetadata(whl)
  \/ \E s \in DOMAIN WrapConsole(whl) : Len(WrapConsole(whl)[s]) # 2

\* The script names in the order the wheel's metadata.json lists them.
MetadataOrder(whl) == IF whl = "flask.whl" THEN <<"b", "a">> ELSE <<>>

\* _AddWHLScripts going over the scripts in the metadata's order.
AddWHLScriptsUnsorted(whl) ==
  LET scripts == WrapConsole(whl)
      order == MetadataOrder(whl)
  IN [i \in 1..Len(order) |->
        [name |-> <<"usr/local/bin/", order[i]>>,
         mode |-> "0777",
         content |-> <<"shim", scripts[order[i]][1], scripts[order[i]][2]>>]]

\* The archive entries _AddWHLScripts adds for a wheel.
AddWHLScripts(whl) ==
  LET scripts == WrapConsole(whl)
      order == Sorted(DOMAIN scripts)
  IN [i \in 1..Len(order) |->
        [name |-> <<"usr/local/bin/", order[i]>>,
         mode |-> "0777",
         content |-> <<"shim", scripts[order[i]][1], scripts[order[i]][2]>>]]

\* os.listdir gives the directory's entries in arbitrary order.
RECURSIVE Listings(_)
Listings(S) ==
  IF S = {} THEN {<<>>}
  ELSE UNION {{<<x>> \o l : l \in Listings(S \ {x})} : x \in S}

\* ------------------------------------------------------------------ initial state

NoStrategy == [kind |-> "none", ctx |-> [files |-> {}, requirements |-> ""]]

NoTempdir == [exists |-> FALSE, files |-> {}]

NoCall ==
  [base_image |-> NoImage, descriptor |-> "", mtime |-> 0, whls |-> <<>>, out |-> <<>>]

NoTag == [repo |-> "", namespace |-> "", tag |-> Sha256(Sha256(""))]

\* get/hit: the outcome of cache.Get; entry/storedAt: the locations Get and
\* Store resolved to; steps: the calls made, in order; failed: the collaborator
\* that failed.
NoTrace ==
  [get |-> "none", hit |-> NoImage, resolves |-> 0, stores |-> 0, stored |-> NoImage,
   entry |-> NoTag, storedAt |-> NoTag, steps |-> <<>>, failed |-> ""]

NoOp ==
  [op |-> "none", base |-> NoImage, namespace |-> "", checksum |-> Sha256(""),
   value |-> NoImage, status |-> "none", answered |-> FALSE, exists |-> FALSE,
   after |-> NoImage]

NoKey == [base |-> NoImage, namespace |-> "", checksum |-> Sha256("")]

Init ==
  /\ registry = [t \in Tags |-> NoImage]
  /\ clock = 0
  /\ pc = [p \in Builders |-> "new"]
  /\ strategy = [p \in Builders |-> NoStrategy]
  /\ tempdir = [p \in Builders |-> NoTempdir]
  /\ call = [p \in Builders |-> NoCall]
  /\ result = [p \in Builders |-> NoImage]
  /\ err = [p \in Builders |-> ""]
  /\ calls = [p \in Builders |-> 0]
  /\ trace = [p \in Builders |-> NoTrace]
  /\ last = NoOp
  /\ storedBy = [t \in Tags |-> NoKey]
  /\ applayer = [p \in Builders |-> <<>>]

\* ------------------------------------------------------------------ builder.py

\* Node.__init__ calls super(Python, self).__init__ on an object that is no
\* Python: super() raises TypeError and no Node is ever constructed.
NodeInitRaises == TRUE

\* From with the markers looked up in the other order.
FromKindNodeFirst(ctx) ==
  IF Contains(ctx, "package.json") THEN "Node"
  ELSE IF Contains(ctx, "requirements.txt") THEN "Python"
  ELSE "JustApp"

\* From(ctx): the strategy kind chosen for a context.
FromKind(ctx) ==
  IF Contains(ctx, "requirements.txt") THEN "Python"
  ELSE IF Contains(ctx, "package.json") THEN "Node"
  ELSE "JustApp"

\* From(ctx), the constructor of the chosen class included.
From(p) ==
  /\ pc[p] = "new"
  /\ \E ctx \in Contexts :
       IF FromKind(ctx) = "Node" /\ NodeInitRaises
       THEN /\ pc' = [pc EXCEPT ![p] = "failed"]
            /\ err' = [err EXCEPT ![p] = "TypeError"]
            /\ strategy' = [strategy EXCEPT ![p] = [kind |-> "none", ctx |-> ctx]]
       ELSE /\ pc' = [pc EXCEPT ![p] = "constructed"]
            /\ strategy' = [strategy EXCEPT ![p] = [kind |-> FromKind(ctx), ctx |-> ctx]]
            /\ err' = err
  /\ UNCHANGED <<registry, clock, tempdir, call, result, calls, trace, cvars, avars>>

\* __enter__: Python makes its temporary directory, the others acquire nothing.
Enter(p) ==
  /\ pc[p] = "constructed"
  /\ pc' = [pc EXCEPT ![p] = "open"]
  /\ tempdir' = [tempdir EXCEPT ![p] =
                   IF strategy[p].kind = "Python"
                   THEN [exists |-> TRUE, files |-> {}] ELSE @]
  /\ UNCHANGED <<registry, clock, strategy, call, result, err, calls, trace, cvars, avars>>

\* An __exit__ that returns True: the exception is dropped and the scope ends
\* as after a success.
ExitSuppressing(p) ==
  /\ pc[p] \in {"open", "raised"}
  /\ pc' = [pc EXCEPT ![p] = "closed"]
  /\ err' = [err EXCEPT ![p] = ""]
  /\ UNCHANGED <<registry, clock, strategy, tempdir, call, result, calls, trace, cvars, avars>>

\* Base.__exit__ (inherited by every strategy): pass. Nothing is removed, and
\* returning None lets an exception raised inside the scope propagate.
Exit(p) ==
  /\ pc[p] \in {"open", "raised"}
  /\ pc' = [pc EXCEPT ![p] = IF pc[p] = "open" THEN "closed" ELSE "failed"]
  /\ UNCHANGED <<registry, clock, strategy, tempdir, call, result, err, calls, trace, cvars, avars>>

\* An exception leaves CreatePackageBase: no image is returned.
Raise(p, e) ==
  /\ pc' = [pc EXCEPT ![p] = "raised"]
  /\ err' = [err EXCEPT ![p] = e]
  /\ result' = [result EXCEPT ![p] = NoImage]

\* CreatePackageBase returns img to the caller, still inside the scope.
Return(p, img) ==
  /\ pc' = [pc EXCEPT ![p] = "open"]
  /\ result' = [result EXCEPT ![p] = img]
  /\ err' = err

\* What Python.CreatePackageBase does with the outcome of cache.Get: an
\* exception propagates, `if hit: return hit`, and a miss goes on to resolve.
OnGetIgnoringHit(status) ==
  IF status = "error" THEN "raise" ELSE "resolve"

OnGet(status) ==
  CASE status = "error" -> "raise"
    [] status = "hit" -> "return"
    [] OTHER -> "resolve"

\* A call of CreatePackageBase(base_image, cache), up to its first return,
\* raise or call of the resolver. JustApp returns the base image; Node raises;
\* Python reads the descriptor, computes the checksum and asks the cache.
CreatePackageBase(p) ==
  /\ pc[p] = "open"
  /\ calls[p] < MaxCalls
  /\ calls' = [calls EXCEPT ![p] = @ + 1]
  /\ \E b \in Bases, ok \in BOOLEAN :
       LET base_image == BaseImage(b)
           descriptor == GetFile(strategy[p].ctx, "requirements.txt")
           checksum == Sha256(descriptor)
           got == RegistryGet(registry, ok, base_image, PYTHON_NAMESPACE, checksum)
       IN CASE strategy[p].kind = "JustApp" ->
                 /\ ok
                 /\ Return(p, base_image)
                 /\ call' = [call EXCEPT ![p] = [NoCall EXCEPT !.base_image = base_image]]
                 /\ trace' = [trace EXCEPT ![p] = NoTrace]
            [] strategy[p].kind = "Node" ->
                 /\ ok
                 /\ Raise(p, "npm install is not implemented")
                 /\ call' = [call EXCEPT ![p] = [NoCall EXCEPT !.base_image = base_image]]
                 /\ trace' = [trace EXCEPT ![p] = NoTrace]
            [] OTHER ->
                 /\ call' = [call EXCEPT ![p] =
                      [NoCall EXCEPT !.base_image = base_image, !.descriptor = descriptor]]
                 /\ trace' = [trace EXCEPT ![p] =
                      [NoTrace EXCEPT !.get = got.status, !.hit = got.img,
                         !.entry = Tag(base_image, PYTHON_NAMESPACE, checksum),
                         !.steps = IF got.status = "hit" THEN <<"Get", "Return">>
                                   ELSE <<"Get">>,
                         !.failed = IF got.status = "error" THEN "Get" ELSE ""]]
                 /\ CASE OnGet(got.status) = "raise" -> Raise(p, "RegistryTransportError")
                      [] OnGet(got.status) = "return" -> Return(p, got.img)
                      [] OTHER -> /\ pc' = [pc EXCEPT ![p] = "resolve"]
                                  /\ UNCHANGED <<result, err>>
  /\ UNCHANGED <<registry, clock, strategy, tempdir, cvars, avars>>

\* The key an entry was stored for.
Key(base_image, namespace, checksum) ==
  [base |-> base_image, namespace |-> namespace, checksum |-> checksum]

\* Python.CreatePackageBase after a miss: open the archive (gzip stamps its
\* header with the current time when the file is opened), then _ResolveWHLs:
\* write requirements.txt, run `pip wheel`, list the .whl files of the
\* directory.
PyResolve(p) ==
  /\ pc[p] = "resolve"
  /\ \E ok \in BOOLEAN :
       /\ trace' = [trace EXCEPT ![p].resolves = @ + 1,
                                 ![p].steps = Append(@, "Resolve"),
                                 ![p].failed = IF ok THEN @ ELSE "Resolve"]
       /\ IF ~ok
          THEN /\ Raise(p, "ResolverFailure")
               /\ tempdir' = [tempdir EXCEPT ![p].files = @ \cup {"requirements.txt"}]
               /\ call' = [call EXCEPT ![p].mtime = clock]
          ELSE /\ tempdir' = [tempdir EXCEPT ![p].files =
                                @ \cup {"requirements.txt"} \cup WheelsOf(call[p].descriptor)]
               /\ \E listing \in Listings(tempdir'[p].files \cap AllWheels) :
                    call' = [call EXCEPT ![p].mtime = clock, ![p].whls = listing]
               /\ pc' = [pc EXCEPT ![p] = "addwhl"]
               /\ UNCHANGED <<result, err>>
  /\ UNCHANGED <<registry, clock, strategy, calls, cvars, avars>>

\* The loop with a failing wheel skipped instead of ending the call.
PyAddWHLSkipping(p) ==
  /\ pc[p] = "addwhl"
  /\ call[p].whls # <<>>
  /\ LET whl == Head(call[p].whls) IN
       call' = [call EXCEPT
         ![p].out = IF AddWHLScriptsRaises(whl) THEN @ \o AddWHLFiles(whl)
                    ELSE @ \o AddWHLFiles(whl) \o AddWHLScripts(whl),
         ![p].whls = Tail(@)]
  /\ UNCHANGED <<pc, result, err>>
  /\ UNCHANGED <<registry, clock, strategy, tempdir, calls, trace, cvars, avars>>

\* One iteration of the loop over the wheels: _AddWHLFiles, then
\* _AddWHLScripts, which may raise with the wheel's files already written.
PyAddWHL(p) ==
  /\ pc[p] = "addwhl"
  /\ call[p].whls # <<>>
  /\ LET whl == Head(call[p].whls) IN
       IF AddWHLScriptsRaises(whl)
       THEN /\ Raise(p, "ArtifactError")
            /\ call' = [call EXCEPT ![p].out = @ \o AddWHLFiles(whl)]
       ELSE /\ call' = [call EXCEPT ![p].out = @ \o AddWHLFiles(whl) \o AddWHLScripts(whl),
                                    ![p].whls = Tail(@)]
            /\ UNCHANGED <<pc, result, err>>
  /\ UNCHANGED <<registry, clock, strategy, tempdir, calls, trace, cvars, avars>>

\* The layer bytes: the archive's entries in order, behind the gzip header.
Layer(c) == [mtime |-> c.mtime, entries |-> c.out]

\* The end of the call without the Store: base + layer is returned only.
PyStoreSkipping(p) ==
  /\ pc[p] = "addwhl"
  /\ call[p].whls = <<>>
  /\ trace' = [trace EXCEPT ![p].steps = Append(@, "Return")]
  /\ Return(p, AppendLayer(call[p].base_image, Layer(call[p])))
  /\ UNCHANGED <<registry, clock, strategy, tempdir, call, calls, cvars, avars>>

\* The end of the call returning the base image instead of base + layer.
PyStoreReturningBase(p) ==
  /\ pc[p] = "addwhl"
  /\ call[p].whls = <<>>
  /\ \E ok \in BOOLEAN :
       LET base_image == call[p].base_image
           checksum == Sha256(call[p].descriptor)
           dep_image == AppendLayer(base_image, Layer(call[p]))
       IN /\ registry' = RegistryStore(registry, ok, base_image, PYTHON_NAMESPACE,
                                       checksum, dep_image)
          /\ trace' = [trace EXCEPT
               ![p].stores = @ + 1, ![p].stored = dep_image,
               ![p].storedAt = Tag(base_image, PYTHON_NAMESPACE, checksum),
               ![p].steps = IF ok THEN @ \o <<"Store", "Return">> ELSE Append(@, "Store"),
               ![p].failed = IF ok THEN @ ELSE "Store"]
          /\ IF ok THEN Return(p, base_image) ELSE Raise(p, "RegistryTransportError")
  /\ UNCHANGED <<clock, strategy, tempdir, call, calls, cvars, avars>>

\* The loop is over: take the layer, append it to the base image, store the
\* result in the cache and return base + layer.
PyStore(p) ==
  /\ pc[p] = "addwhl"
  /\ call[p].whls = <<>>
  /\ \E ok \in BOOLEAN :
       LET base_image == call[p].base_image
           checksum == Sha256(call[p].descriptor)
           layer == Layer(call[p])
           dep_image == AppendLayer(base_image, layer)
       IN /\ registry' = RegistryStore(registry, ok, base_image, PYTHON_NAMESPACE,
                                       checksum, dep_image)
          /\ trace' = [trace EXCEPT
               ![p].stores = @ + 1, ![p].stored = dep_image,
               ![p].storedAt = Tag(base_image, PYTHON_NAMESPACE, checksum),
               ![p].steps = IF ok THEN @ \o <<"Store", "Return">> ELSE Append(@, "Store"),
               ![p].failed = IF ok THEN @ ELSE "Store"]
          /\ IF ok
             THEN /\ Return(p, AppendLayer(base_image, layer))
                  /\ storedBy' = [storedBy EXCEPT
                       ![Tag(base_image, PYTHON_NAMESPACE, checksum)] =
                          Key(base_image, PYTHON_NAMESPACE, checksum)]
             ELSE /\ Raise(p, "RegistryTransportError")
                  /\ UNCHANGED storedBy
  /\ UNCHANGED <<clock, strategy, tempdir, call, calls, last, avars>>

\* A second passes.
Tick ==
  /\ clock < MaxClock
  /\ clock' = clock + 1
  /\ UNCHANGED <<registry, bvars, cvars, avars>>

Next ==
  \/ \E p \in Builders : From(p)
  \/ \E p \in Builders : Enter(p)
  \/ \E p \in Builders : CreatePackageBase(p)
  \/ \E p \in Builders : PyResolve(p)
  \/ \E p \in Builders : PyAddWHL(p)
  \/ \E p \in Builders : PyStore(p)
  \/ \E p \in Builders : Exit(p)
  \/ Tick

Spec == Init /\ [][Next]_vars

\* ------------------------------------------------------------------ the application layer

\* BuildAppLayer calls one builder makes inside its scope.
MaxBuilds == 2

\* The archive entries of JustApp.BuildAppLayer without the 'app' prefix.
AppEntriesUnprefixed(ctx) ==
  [i \in 1..Len(ListFiles(ctx)) |->
     [name |-> <<ListFiles(ctx)[i]>>,
      size |-> ByteLen(GetFile(ctx, ListFiles(ctx)[i])),
      content |-> GetFile(ctx, ListFiles(ctx)[i])]]

\* The archive entries of JustApp.BuildAppLayer: for each name of
\* ctx.ListFiles(), in that order, a TarInfo named os.path.join('app', name)
\* with size len(content), followed by the content.
AppEntries(ctx) ==
  [i \in 1..Len(ListFiles(ctx)) |->
     [name |-> <<"app", ListFiles(ctx)[i]>>,
      size |-> ByteLen(GetFile(ctx, ListFiles(ctx)[i])),
      content |-> GetFile(ctx, ListFiles(ctx)[i])]]

\* JustApp.BuildAppLayer (inherited by Python and Node): buf.getvalue() of a
\* 'w:gz' archive, whose gzip header carries the time the archive was opened.
BuildAppLayer(p) ==
  /\ pc[p] = "open"
  /\ Len(applayer[p]) < MaxBuilds
  /\ applayer' = [applayer EXCEPT ![p] =
       Append(@, [mtime |-> clock, entries |-> AppEntries(strategy[p].ctx)])]
  /\ UNCHANGED <<registry, clock, bvars, cvars>>

AppNext ==
  \/ \E p \in Builders : From(p)
  \/ \E p \in Builders : Enter(p)
  \/ \E p \in Builders : BuildAppLayer(p)
  \/ \E p \in Builders : Exit(p)
  \/ Tick

AppSpec == Init /\ [][AppNext]_vars

\* ------------------------------------------------------------------ the cache interface

\* The layers a caller of the cache appends to a base image before storing.
CallerLayers == {[mtime |-> t, entries |-> <<>>] : t \in 0..MaxClock}

\* The checksums a caller of the cache passes: two are enough to tell keys apart.
CallerChecksums == {Sha256(d) : d \in {"", "flask==1.0"}}

\* cache.Store(base_image, namespace, checksum, value) with the value
\* CreatePackageBase passes: the base image with a layer appended.
CacheStore ==
  \E b \in Bases, ns \in Namespaces, checksum \in CallerChecksums,
     layer \in CallerLayers, ok \in BOOLEAN :
    LET base_image == BaseImage(b)
        value == AppendLayer(base_image, layer)
    IN /\ registry' = RegistryStore(registry, ok, base_image, ns, checksum, value)
       /\ storedBy' = IF ok
                      THEN [storedBy EXCEPT ![Tag(base_image, ns, checksum)] =
                              Key(base_image, ns, checksum)]
                      ELSE storedBy
       /\ last' = [op |-> "Store", base |-> base_image, namespace |-> ns,
                   checksum |-> checksum, value |-> value,
                   status |-> IF ok THEN "ok" ELSE "error",
                   answered |-> ok, exists |-> FALSE, after |-> NoImage]
       /\ UNCHANGED <<clock, bvars, avars>>

\* cache.Get(base_image, namespace, checksum). `answered` records whether the
\* registry answered, `exists` whether the location existed, `after` the value of a successful Store of the same
\* arguments when that was the call right before this one.
CacheGet ==
  \E b \in Bases, ns \in Namespaces, checksum \in CallerChecksums, ok \in BOOLEAN :
    LET base_image == BaseImage(b)
        got == RegistryGet(registry, ok, base_image, ns, checksum)
    IN /\ last' = [op |-> "Get", base |-> base_image, namespace |-> ns,
                   checksum |-> checksum, value |-> got.img, status |-> got.status,
                   answered |-> ok,
                   exists |-> registry[Tag(base_image, ns, checksum)] # NoImage,
                   after |-> IF /\ last.op = "Store" /\ last.status = "ok"
                                /\ last.base = base_image /\ last.namespace = ns
                                /\ last.checksum = checksum
                             THEN last.value ELSE NoImage]
       /\ UNCHANGED <<registry, storedBy, clock, bvars, avars>>

CacheNext == CacheStore \/ CacheGet

CacheSpec == Init /\ [][CacheNext]_vars

\* ------------------------------------------------------------------ properties

\* The location the Python strategy's call of builder p looks up and stores to.
CallTag(c) == Tag(c.base_image, PYTHON_NAMESPACE, Sha256(c.descriptor))

\* C1: when the cache holds an entry for (base_image, PYTHON_NAMESPACE,
\* sha256(requirements.txt)) and the registry answers, a call of
\* Python.CreatePackageBase returns in that same step the image cache.Get found,
\* with the resolver and cache.Store not invoked and the registry as it was.
C1_CacheShortCircuit ==
  [][\A p \in Builders :
       ( /\ pc[p] = "open"
         /\ strategy[p].kind = "Python"
         /\ calls'[p] = calls[p] + 1
         /\ registry[CallTag(call'[p])] # NoImage
         /\ trace'[p].get # "error" )
       => ( /\ pc'[p] = "open"
            /\ err'[p] = ""
            /\ result'[p] = registry[CallTag(call'[p])]
            /\ trace'[p].hit = result'[p]
            /\ trace'[p].resolves = 0
            /\ trace'[p].stores = 0
            /\ registry' = registry )]_vars

\* C1 witness: a Python builder's call has hit the cache and returned the hit.
C1_Witness ==
  \E p \in Builders :
    /\ strategy[p].kind = "Python"
    /\ trace[p].get = "hit"
    /\ pc[p] = "open"
    /\ result[p] # NoImage
    /\ result[p] = trace[p].hit

\* C2: a Get that hits returns an image that was stored for the same base
\* image, namespace and checksum.
C2_KeyedByTriple ==
  (last.op = "Get" /\ last.status = "hit")
    => storedBy[Tag(last.base, last.namespace, last.checksum)]
         = Key(last.base, last.namespace, last.checksum)

\* The entries a complete layer holds for a listing of wheels.
RECURSIVE FullEntries(_)
FullEntries(listing) ==
  IF listing = <<>> THEN <<>>
  ELSE AddWHLFiles(Head(listing)) \o AddWHLScripts(Head(listing))
         \o FullEntries(Tail(listing))

\* A call's Store was given base + the complete layer of its descriptor: every
\* wheel resolved, none of them failing, all of their entries present.
StoredComplete(p) ==
  /\ trace[p].resolves = 1
  /\ \A w \in WheelsOf(call[p].descriptor) : ~AddWHLScriptsRaises(w)
  /\ \E listing \in Listings(WheelsOf(call[p].descriptor)) :
       trace[p].stored =
         AppendLayer(call[p].base_image,
                     [mtime |-> call[p].mtime, entries |-> FullEntries(listing)])

\* C3: a call in which the resolver or the processing of a wheel failed has
\* invoked no Store, whatever is handed to Store is base + the complete layer,
\* and the step in which the call fails leaves the registry as it was.
C3_StoreOnlyAfterSuccess ==
  /\ [](\A p \in Builders :
          /\ (err[p] \in {"ResolverFailure", "ArtifactError"} => trace[p].stores = 0)
          /\ (trace[p].stores > 0 => StoredComplete(p)))
  /\ [][\A p \in Builders :
          (pc[p] # "raised" /\ pc'[p] = "raised"
             /\ err'[p] \in {"ResolverFailure", "ArtifactError"})
          => registry' = registry]_vars

\* C3 witness: the processing of a wheel has failed with part of the layer
\* already written, and the cache location is still empty.
C3_Witness ==
  \E p \in Builders :
    /\ pc[p] = "raised"
    /\ err[p] = "ArtifactError"
    /\ call[p].out # <<>>
    /\ trace[p].resolves = 1
    /\ registry[CallTag(call[p])] = NoImage

\* C4: a Get right after a successful Store of the same base image, namespace
\* and checksum hits (when the registry answers) and returns the stored value,
\* which is the base image with the caller's layer appended.
C4_StoreGetRoundTrip ==
  (last.op = "Get" /\ last.after # NoImage /\ last.status # "error")
    => /\ last.status = "hit"
       /\ last.value = last.after
       /\ \E layer \in CallerLayers : last.value = AppendLayer(last.base, layer)

\* C4 witness: a Get has followed a Store of the same arguments and hit.
C4_Witness ==
  /\ last.op = "Get"
  /\ last.after # NoImage
  /\ last.status = "hit"

\* Builder p has completed a call on the miss path: resolved, stored, returned.
MissCompleted(p) ==
  /\ strategy[p].kind = "Python"
  /\ trace[p].get = "miss"
  /\ trace[p].stores = 1
  /\ pc[p] \in {"open", "closed"}
  /\ result[p] # NoImage

\* C5: two builders with the same base image and the same descriptor that both
\* missed, resolved and stored return equal images, and the cache entry for
\* the key equals that image.
C5_ConcurrentStoresAgree ==
  \A p, q \in Builders :
    ( /\ p # q
      /\ MissCompleted(p) /\ MissCompleted(q)
      /\ call[p].base_image = call[q].base_image
      /\ call[p].descriptor = call[q].descriptor )
    => ( /\ result[p] = result[q]
         /\ registry[CallTag(call[p])] = result[p] )

C7_SelectionTotal ==
  \A p \in Builders :
    pc[p] # "new" =>
      /\ err[p] # "TypeError"
      /\ strategy[p].kind =
           (IF "requirements.txt" \in strategy[p].ctx.files THEN "Python"
            ELSE IF "package.json" \in strategy[p].ctx.files THEN "Node"
            ELSE "JustApp")

\* C8: a context with both requirements.txt and package.json resolves to a
\* constructed Python strategy, not to Node and not to the passthrough.
C8_SelectionPriority ==
  \A p \in Builders :
    (pc[p] # "new" /\ Markers \subseteq strategy[p].ctx.files)
      => (strategy[p].kind = "Python" /\ err[p] # "TypeError")

\* C8 witness: a context with both markers has been given to From.
C8_Witness ==
  \E p \in Builders :
    /\ pc[p] = "constructed"
    /\ Markers \subseteq strategy[p].ctx.files
    /\ strategy[p].kind = "Python"

\* C9: Get reports a miss exactly when the registry answered and the location
\* does not exist, a hit (with the image there) exactly when it answered and the
\* location exists, and an error exactly when the registry failed.
C9_MissIsNotFailure ==
  last.op = "Get" =>
    /\ (last.status = "miss") <=> (last.answered /\ ~last.exists)
    /\ (last.status = "hit") <=> (last.answered /\ last.exists)
    /\ (last.status = "error") <=> ~last.answered
    /\ (last.status = "hit") <=> (last.value # NoImage)

\* C9 witness: the registry failed during a Get of a location that exists, and
\* Get raised.
C9_Witness ==
  /\ last.op = "Get"
  /\ ~last.answered
  /\ last.exists
  /\ last.status = "error"

\* C10: once a strategy's scope is exited, after success or failure, its
\* temporary directory is gone.
C10_TempdirReleased ==
  \A p \in Builders :
    pc[p] \in {"closed", "failed"} => ~tempdir[p].exists

\* C11: any two BuildAppLayer results for the same Source Context, whenever
\* and in whichever builder they were produced, are the same bytes.
C11_AppLayerDeterministic ==
  \A p, q \in Builders :
    \A i \in 1..Len(applayer[p]), j \in 1..Len(applayer[q]) :
      strategy[p].ctx = strategy[q].ctx => applayer[p][i] = applayer[q][j]

\* C12: two calls with the same base image, namespace and checksum resolve to
\* the same registry location, whatever happened before either of them, and a
\* call's Store goes to the location its Get looked up.
C12_SameKeySameLocation ==
  /\ \A p, q \in Builders :
       ( /\ trace[p].get # "none" /\ trace[q].get # "none"
         /\ call[p].base_image = call[q].base_image
         /\ call[p].descriptor = call[q].descriptor )
       => trace[p].entry = trace[q].entry
  /\ \A p \in Builders : trace[p].stores > 0 => trace[p].storedAt = trace[p].entry

\* C12 witness: two builders looked the same key up at different times, one on
\* an empty registry and one after the entry was stored.
C12_Witness ==
  \E p, q \in Builders :
    /\ trace[p].get = "miss" /\ trace[p].stores = 1 /\ pc[p] = "open"
    /\ trace[q].get = "hit"
    /\ call[p].base_image = call[q].base_image
    /\ call[p].descriptor = call[q].descriptor
    /\ clock = 1
    /\ call[p].mtime = 0

\* C13: the base image handed to CreatePackageBase stays the value it was for
\* the whole call, on the hit and on the miss path, and the image returned on
\* the miss path is a new value: the base image's layers plus one.
C13_BaseImageUntouched ==
  /\ [](\A p \in Builders :
          /\ call[p].base_image # NoImage => call[p].base_image.layers = <<>>
          /\ MissCompleted(p) =>
               /\ result[p] # call[p].base_image
               /\ result[p].base = call[p].base_image.base
               /\ Len(result[p].layers) = Len(call[p].base_image.layers) + 1)
  /\ [][\A p \in Builders :
          calls'[p] = calls[p] => call'[p].base_image = call[p].base_image]_vars

\* C13 witness: a call has returned on the miss path with its base image still
\* without layers.
C13_Witness ==
  \E p \in Builders :
    /\ MissCompleted(p)
    /\ call[p].base_image.layers = <<>>
    /\ Len(result[p].layers) = 1
    /\ result[p].layers[1].entries # <<>>

\* The position of a script name in ascending order.
Rank(s) == CHOOSE i \in 1..Len(ScriptNamesAscending) : ScriptNamesAscending[i] = s

IsShim(e) == e.content[1] = "shim"

\* C14: the shims written into a layer are in ascending order of script name,
\* all the scripts the metadata declares are there, and every shim has the
\* executable mode.
C14_ScriptsSorted ==
  \A p \in Builders :
    LET out == call[p].out IN
    /\ \A i, j \in 1..Len(out) :
         (i < j /\ IsShim(out[i]) /\ IsShim(out[j]))
           => Rank(out[i].name[2]) < Rank(out[j].name[2])
    /\ \A i \in 1..Len(out) : IsShim(out[i]) => out[i].mode = "0777"
    /\ \A i \in 1..Len(out) :
         (out[i].content = <<"file", "flask.whl", "flask/cli.py">> /\ pc[p] # "raised")
           => /\ Len(out) >= i + 2
              /\ out[i + 1].name = <<"usr/local/bin/", "a">>
              /\ out[i + 2].name = <<"usr/local/bin/", "b">>

\* C14 witness: the wheel whose metadata lists "b" before "a" has been
\* processed, and its shims are in the layer as "a", "b".
C14_Witness ==
  \E p \in Builders :
    \E i \in 1..Len(call[p].out) :
      /\ i < Len(call[p].out)
      /\ MetadataOrder("flask.whl") = <<"b", "a">>
      /\ call[p].out[i].name = <<"usr/local/bin/", "a">>
      /\ call[p].out[i + 1].name = <<"usr/local/bin/", "b">>

\* C15: a BuildAppLayer result has one entry per file of ListFiles(), in that
\* order, named 'app' + the file's path and sized len(GetFile(path)).
C15_AppLayerContents ==
  \A p \in Builders :
    \A k \in 1..Len(applayer[p]) :
      LET entries == applayer[p][k].entries
          files == ListFiles(strategy[p].ctx)
      IN /\ Len(entries) = Len(files)
         /\ \A i \in 1..Len(files) :
              /\ entries[i].name = <<"app", files[i]>>
              /\ entries[i].size = ByteLen(GetFile(strategy[p].ctx, files[i]))

\* C15 witness: the application layer of a context with two files, one of
\* them not empty, has been built.
C15_Witness ==
  \E p \in Builders :
    /\ Len(applayer[p]) > 0
    /\ Len(applayer[p][1].entries) = 2
    /\ applayer[p][1].entries[2].size = 10

\* Builder p's call missed and has returned an image.
MissReturned(p) ==
  /\ strategy[p].kind = "Python"
  /\ trace[p].get = "miss"
  /\ pc[p] \in {"open", "closed"}
  /\ result[p] # NoImage

\* C16: a call that missed and returned has made its calls in the order Get,
\* resolve, Store, return, invoking the resolver once and Store once with the
\* complete layer; and the same builder's next call with the same base image,
\* the registry answering, hits and returns without resolving.
C16_MissThenHit ==
  /\ [](\A p \in Builders :
          MissReturned(p) =>
            /\ trace[p].steps = <<"Get", "Resolve", "Store", "Return">>
            /\ trace[p].resolves = 1
            /\ trace[p].stores = 1
            /\ StoredComplete(p))
  /\ [][\A p \in Builders :
          ( /\ MissReturned(p)
            /\ calls'[p] = calls[p] + 1
            /\ call'[p].base_image = call[p].base_image
            /\ trace'[p].get # "error" )
          => ( /\ trace'[p].get = "hit"
               /\ trace'[p].steps = <<"Get", "Return">>
               /\ trace'[p].resolves = 0
               /\ pc'[p] = "open"
               /\ result'[p] = registry[CallTag(call[p])] )]_vars

\* C16 witness: with the other builder never started, a builder's second call
\* has hit the entry its first call stored.
C16_Witness ==
  \E p, q \in Builders :
    /\ p # q
    /\ pc[q] = "new"
    /\ calls[p] = 2
    /\ trace[p].get = "hit"
    /\ trace[p].resolves = 0
    /\ result[p] = registry[CallTag(call[p])]
    /\ result[p].layers # <<>>

\* C17: a Get that hits returns an entry that was stored under the namespace it
\* asked for, and a Store leaves every location of another namespace as it
\* was.
C17_NamespacesPartition ==
  /\ []((last.op = "Get" /\ last.status = "hit")
          => storedBy[Tag(last.base, last.namespace, last.checksum)].namespace
               = last.namespace)
  /\ [][last'.op = "Store" =>
          \A b \in Bases, ns \in Namespaces, c \in CallerChecksums :
            ns # last'.namespace =>
              registry'[Tag(BaseImage(b), ns, c)] = registry[Tag(BaseImage(b), ns, c)]]_vars

\* C17 witness: the same base image and checksum are stored under one
\* namespace and a Get under the other namespace has missed.
C17_Witness ==
  /\ last.op = "Get"
  /\ last.status = "miss"
  /\ \E ns \in Namespaces :
       /\ ns # last.namespace
       /\ registry[Tag(last.base, ns, last.checksum)] # NoImage

\* C18: once the resolver or the registry (in Get or in Store) has failed in a
\* call, that call returns no image, the exception is the builder's outcome,
\* and leaving the scope ends the build as failed.
C18_ErrorsPropagate ==
  \A p \in Builders :
    trace[p].failed # "" =>
      /\ pc[p] \in {"raised", "failed"}
      /\ result[p] = NoImage
      /\ err[p] = (IF trace[p].failed = "Resolve" THEN "ResolverFailure"
                   ELSE "RegistryTransportError")

\* C18 witness: Store failed, and the scope has been left with the error.
C18_Witness ==
  \E p \in Builders :
    /\ trace[p].failed = "Store"
    /\ pc[p] = "failed"
    /\ err[p] = "RegistryTransportError"

\* C19: the image a call returns on the miss path equals the image it stored,
\* and when it returns that image is what the cache location holds (what a
\* later hit of this entry returns).
C19_MissEqualsStored ==
  /\ [](\A p \in Builders : MissCompleted(p) => result[p] = trace[p].stored)
  /\ [][\A p \in Builders :
          (pc[p] = "addwhl" /\ pc'[p] = "open")
            => registry'[CallTag(call[p])] = result'[p]]_vars

\* C19 witness: a call has returned on the miss path, with a layer that is
\* not empty, and the cache location holds the image it returned.
C19_Witness ==
  \E p \in Builders :
    /\ MissCompleted(p)
    /\ result[p] = trace[p].stored
    /\ result[p].layers[1].entries # <<>>
    /\ registry[CallTag(call[p])] = result[p]

====
